---------------------------- MODULE Spec2Model ----------------------------
(***************************************************************************)
(* Model of the referral-link bot (main.py): the link registry links_db,   *)
(* its JSON store links.json, the six admin command handlers, the          *)
(* auto-format handler auto_edit, and the restart loop of main().          *)
(*                                                                         *)
(* Text is a sequence of one-character strings, so that split, splitlines, *)
(* strip, startswith, the substring test and escape_html are computed on   *)
(* characters as Python computes them.                                     *)
(***************************************************************************)
EXTENDS Integers, Sequences, FiniteSets, TLC

(***************************************************************************)
(* Bounds of the model (not program constants).                            *)
(***************************************************************************)
\* Polling runs that return normally during one run of main().
MaxReturns == 1
\* save_links calls that end in an I/O error during one run of main().
MaxSaveFailures == 1
\* Entries of the registries the listing specification starts from.
MaxListEntries == 3
\* Handler coroutines the dispatcher creates during one run of main().
MaxTasks == 2
\* Requests the keep-alive server answers during one run.
MaxProbes == 3

(***************************************************************************)
(* Characters and Python's string primitives.                              *)
(***************************************************************************)
\* str.isspace() for the characters that occur in the modelled messages.
Whitespace == {" ", "\n", "\t"}

\* The line boundary used by str.splitlines().
LineBreaks == {"\n"}

Lowercase == {"a","b","c","d","e","f","g","h","i","j","k","l","m",
              "n","o","p","q","r","s","t","u","v","w","x","y","z"}

Uppercase == {"A","B","C","D","E","F","G","H","I","J","K","L","M",
              "N","O","P","Q","R","S","T","U","V","W","X","Y","Z"}

Digits == {"0","1","2","3","4","5","6","7","8","9"}

\* The character class [A-Za-z0-9@_-] of the code pattern.
CodeChars == Lowercase \cup Uppercase \cup Digits \cup {"@", "_", "-"}

\* The character class [:\s] of the code pattern.
CodeSeparators == Whitespace \cup {":"}

\* re.IGNORECASE folding of the four letters of the literal "code".
FoldCase(c) ==
    CASE c = "C" -> "c"
      [] c = "O" -> "o"
      [] c = "D" -> "d"
      [] c = "E" -> "e"
      [] OTHER -> c

\* s[i:] with a 1-based index.
Drop(s, i) == SubSeq(s, i, Len(s))

\* str.startswith
startswith(s, p) == Len(s) >= Len(p) /\ SubSeq(s, 1, Len(p)) = p

\* The Python test `u in t` on strings: u is a literal substring of t.
Contains(t, u) ==
    \E i \in 1..(Len(t) - Len(u) + 1) : SubSeq(t, i, i + Len(u) - 1) = u

\* Index of the first character of s in set cs, Len(s)+1 when there is none.
FirstIn(s, cs) ==
    IF \E i \in 1..Len(s) : s[i] \in cs
    THEN CHOOSE i \in 1..Len(s) : s[i] \in cs /\ \A j \in 1..(i-1) : s[j] \notin cs
    ELSE Len(s) + 1

\* Index of the first character of s not in set cs, Len(s)+1 when there is none.
FirstNotIn(s, cs) ==
    IF \E i \in 1..Len(s) : s[i] \notin cs
    THEN CHOOSE i \in 1..Len(s) : s[i] \notin cs /\ \A j \in 1..(i-1) : s[j] \in cs
    ELSE Len(s) + 1

\* Index of the last character of s not in set cs, 0 when there is none.
LastNotIn(s, cs) ==
    IF \E i \in 1..Len(s) : s[i] \notin cs
    THEN CHOOSE i \in 1..Len(s) :
            s[i] \notin cs /\ \A j \in (i+1)..Len(s) : s[j] \in cs
    ELSE 0

\* str.strip(): leading and trailing whitespace removed.
strip(s) == SubSeq(s, FirstNotIn(s, Whitespace), LastNotIn(s, Whitespace))

\* str.split(maxsplit=n) with no separator: runs of whitespace separate the
\* words, leading whitespace is dropped, and after n splits the remainder
\* (leading whitespace dropped, trailing whitespace kept) is the last part.
\* n = -1 is Python's "no limit".
RECURSIVE split(_, _)
split(s, maxsplit) ==
    LET t == Drop(s, FirstNotIn(s, Whitespace))
        n == FirstIn(t, Whitespace)
    IN  IF t = <<>> THEN <<>>
        ELSE IF maxsplit = 0 THEN <<t>>
        ELSE <<SubSeq(t, 1, n - 1)>> \o split(Drop(t, n), maxsplit - 1)

\* str.splitlines(): the lines without their line breaks; a trailing line
\* break does not open an empty last line.
RECURSIVE splitlines(_)
splitlines(s) ==
    LET n == FirstIn(s, LineBreaks)
    IN  IF s = <<>> THEN <<>>
        ELSE <<SubSeq(s, 1, n - 1)>> \o splitlines(Drop(s, n + 1))

\* str.replace(old, new) for a one-character old: every occurrence of the
\* character c in s is replaced by the string r.
RECURSIVE replace_all(_, _, _)
replace_all(s, c, r) ==
    IF Len(s) = 0 THEN <<>>
    ELSE IF Len(s) = 1 THEN (IF s[1] = c THEN r ELSE s)
    ELSE LET h == Len(s) \div 2
         IN  replace_all(SubSeq(s, 1, h), c, r) \o replace_all(Drop(s, h + 1), c, r)

replace(s, c, r) ==
    IF \A i \in 1..Len(s) : s[i] # c THEN s ELSE replace_all(s, c, r)

(***************************************************************************)
(* Configuration (main.py, "CONFIG").                                      *)
(***************************************************************************)
\* Sender ids that occur in the modelled messages.
Users == {1, 2}

\* The allow-list parsed from the ADMIN_IDS environment variable.
ADMIN_IDS == {1}

\* Mutant of max_retries: one retry more.
max_retries_plus_one == 5 + 1

max_retries == 5

\* Upper limit of the backoff wait, in seconds.
BackoffCap == 60

\* Size threshold of one listurls reply, in characters.
ChunkLimit == 4000

(***************************************************************************)
(* The registry links_db is a Python dict url -> {"label": label}: a       *)
(* sequence of entries with distinct urls, in insertion order.  The value  *)
(* dict is the record data: has_label says whether the key "label" is      *)
(* present.                                                                *)
(***************************************************************************)
LabelData(label) == [has_label |-> TRUE, label |-> label]

NoLabelData == [has_label |-> FALSE, label |-> <<>>]

Entry(url, data) == [url |-> url, data |-> data]

\* dict keys, as a set and in iteration order.
Keys(d) == {d[i].url : i \in 1..Len(d)}

KeyList(d) == [i \in 1..Len(d) |-> d[i].url]

\* url in d
HasKey(d, url) == url \in Keys(d)

\* Position of url in the iteration order of d (for a key of d).
IndexOf(d, url) == CHOOSE i \in 1..Len(d) : d[i].url = url

\* d[url]
Lookup(d, url) == d[IndexOf(d, url)].data

\* d[url] = data: an existing key keeps its position, a new key goes last.
DictSet(d, url, data) ==
    IF HasKey(d, url)
    THEN [d EXCEPT ![IndexOf(d, url)] = Entry(url, data)]
    ELSE Append(d, Entry(url, data))

\* del d[url]: the other entries keep their order.
DictDel(d, url) ==
    LET i == IndexOf(d, url)
    IN  SubSeq(d, 1, i - 1) \o SubSeq(d, i + 1, Len(d))

\* data.get("label", default)
GetLabel(data, default) == IF data.has_label THEN data.label ELSE default

(***************************************************************************)
(* The store links.json.  Its content is the sequence of pieces json.dump  *)
(* writes: the opening brace, one piece per entry, the closing brace.  A   *)
(* write that stops early leaves a proper prefix of that sequence.         *)
(***************************************************************************)
OpenTok == [tok |-> "{", url |-> <<>>, data |-> NoLabelData]

CloseTok == [tok |-> "}", url |-> <<>>, data |-> NoLabelData]

EntryTok(e) == [tok |-> "entry", url |-> e.url, data |-> e.data]

\* json.dump(links, f, indent=2, ensure_ascii=False)
Serialize(d) == <<OpenTok>> \o [i \in 1..Len(d) |-> EntryTok(d[i])] \o <<CloseTok>>

\* The content parses as one JSON object.
WellFormed(c) ==
    /\ Len(c) >= 2
    /\ c[1] = OpenTok
    /\ c[Len(c)] = CloseTok
    /\ \A i \in 2..(Len(c) - 1) : c[i].tok = "entry"

\* json.load(f) of a well-formed content.
Parse(c) == [i \in 1..(Len(c) - 2) |-> Entry(c[i + 1].url, c[i + 1].data)]

NoFile == [exists |-> FALSE, content |-> <<>>]

FileOf(c) == [exists |-> TRUE, content |-> c]

\* load_links(): the parsed file, and {} when the file is missing or json.load
\* raises.
load_links(f) ==
    IF f.exists /\ WellFormed(f.content) THEN Parse(f.content) ELSE <<>>

\* What one call of save_links can do to the file: the whole registry is
\* written; open(..., "w") raises and the file is untouched; or open truncates
\* the file and the write raises after k pieces.
Ok == [kind |-> "ok", written |-> 0]

SaveOutcomes(d) ==
    {Ok, [kind |-> "open_error", written |-> 0]}
    \cup {[kind |-> "write_error", written |-> k] : k \in 0..(Len(Serialize(d)) - 1)}

\* save_links(links): the file after the call, for an outcome o.  The
\* exception of a failed call is caught and logged; nothing is returned.
save_links(f, d, o) ==
    IF o.kind = "ok" THEN FileOf(Serialize(d))
    ELSE IF o.kind = "open_error" THEN f
    ELSE FileOf(SubSeq(Serialize(d), 1, o.written))

(***************************************************************************)
(* Helpers (main.py, "HELPERS").                                           *)
(***************************************************************************)
AmpEntity == <<"&", "a", "m", "p">>

LtEntity == <<"&", "l", "t", ";">>

GtEntity == <<"&", "g", "t", ";">>

\* escape_html(text)
escape_html(text) ==
    IF text = <<>> THEN <<>>
    ELSE replace(replace(replace(text, "&", AmpEntity), "<", LtEntity), ">", GtEntity)

\* Mutant of is_admin: every known sender passes the check.
is_admin_anyone(user_id) == user_id \in Users

\* is_admin(user_id)
is_admin(user_id) == user_id \in ADMIN_IDS

DefaultLabel == <<"S","i","g","n"," ","U","p"," ","N","o","w">>

\* build_keyboard(urls): one button row (text, url) per url.
build_keyboard(d, urls) ==
    [i \in 1..Len(urls) |->
        [text |-> GetLabel(Lookup(d, urls[i]), DefaultLabel), url |-> urls[i]]]

\* The arrow character of the reply texts (one character, U+2192).
Arrow == "^"

\* str(n) for n >= 0.
RECURSIVE Str(_)
Str(n) ==
    LET d == <<"0","1","2","3","4","5","6","7","8","9">>
    IN  IF n < 10 THEN <<d[n + 1]>> ELSE Str(n \div 10) \o <<d[(n % 10) + 1]>>

(***************************************************************************)
(* Replies.  A reply is one msg.reply call.  The fixed texts are named by  *)
(* kind; text, lines and more carry the parts built from the message.      *)
(***************************************************************************)
Reply(kind, text, lines, more) ==
    [kind |-> kind, text |-> text, lines |-> lines, more |-> more]

Fixed(kind) == Reply(kind, <<>>, <<>>, <<>>)

\* What a handler did: the registry and file it leaves, its replies and edit
\* calls in order, the number of save_links calls and of save errors logged,
\* and whether the process was stopped inside save_links.
Result(db, f, replies, edits, saves, save_errors, killed) ==
    [db |-> db, file |-> f, replies |-> replies, edits |-> edits,
     saves |-> saves, save_errors |-> save_errors, killed |-> killed]

\* A handler that returns after these replies without touching anything.
Answer(db, f, replies) == Result(db, f, replies, <<>>, 0, 0, FALSE)

\* Mutant of Saved: save_links lets its exception out, and the handler's
\* except branch answers with its error reply.
Saved_raising(db, f, o, replies) ==
    IF o.kind = "killed"
    THEN Result(db, FileOf(SubSeq(Serialize(db), 1, o.written)), <<>>, <<>>, 1, 0, TRUE)
    ELSE Result(db, save_links(f, db, o),
                IF o.kind = "ok" THEN replies ELSE <<Fixed("error")>>, <<>>, 1,
                IF o.kind = "ok" THEN 0 ELSE 1, FALSE)

\* The handler's tail from a save_links(links_db) call on: the save with
\* outcome o, then the replies.  A process stopped inside the save leaves the
\* pieces written so far and sends nothing.
Saved(db, f, o, replies) ==
    IF o.kind = "killed"
    THEN Result(db, FileOf(SubSeq(Serialize(db), 1, o.written)), <<>>, <<>>, 1, 0, TRUE)
    ELSE Result(db, save_links(f, db, o), replies, <<>>, 1,
                IF o.kind = "ok" THEN 0 ELSE 1, FALSE)

\* http:// or https:// at the start of url.
ValidUrl(url) == startswith(url, <<"h","t","t","p",":","/","/">>) \/ startswith(url, <<"h","t","t","p","s",":","/","/">>)

(***************************************************************************)
(* Command handlers (main.py, "COMMAND HANDLERS").  Each takes the         *)
(* registry db, the file f, the message m and the outcome o of the         *)
(* save_links call it may make.                                            *)
(***************************************************************************)
\* cmd_start
cmd_start(db, f, m, o) == Answer(db, f, <<Fixed("welcome")>>)

\* cmd_addurl
cmd_addurl(db, f, m, o) ==
    IF ~is_admin(m.from) THEN Answer(db, f, <<Fixed("denied")>>)
    ELSE
    LET parts == split(m.text, 2)
    IN  IF Len(parts) < 3 THEN Answer(db, f, <<Fixed("usage_addurl")>>)
        ELSE
        LET label == parts[2]
            url == parts[3]
        IN  IF ~ValidUrl(url) THEN Answer(db, f, <<Fixed("invalid_url")>>)
            ELSE Saved(DictSet(db, url, LabelData(label)), f, o,
                       <<Reply("saved", <<>>, <<escape_html(label), escape_html(url)>>, <<>>)>>)

\* Mutant of addurls_loop: a line that is not added ends the loop (break in
\* the place of continue).
RECURSIVE addurls_loop_break(_, _, _)
addurls_loop_break(st, lines, line_num) ==
    IF lines = <<>> THEN st
    ELSE
    LET parts == split(strip(Head(lines)), 1)
    IN  IF Len(parts) # 2
        THEN [st EXCEPT !.errors =
                Append(@, <<"L","i","n","e"," ">> \o Str(line_num))]
        ELSE IF ~ValidUrl(parts[2])
        THEN [st EXCEPT !.errors =
                Append(@, <<"L","i","n","e"," ">> \o Str(line_num))]
        ELSE addurls_loop_break(
                [st EXCEPT
                  !.db = DictSet(@, parts[2], LabelData(parts[1])),
                  !.added = Append(@, escape_html(parts[1]) \o <<" ", Arrow, " ">>
                                      \o escape_html(parts[2]))],
                Tail(lines), line_num + 1)

\* The for loop of cmd_addurls over the lines from line number line_num on;
\* st is [db, added, errors].
RECURSIVE addurls_loop(_, _, _)
addurls_loop(st, lines, line_num) ==
    IF lines = <<>> THEN st
    ELSE
    LET parts == split(strip(Head(lines)), 1)
        next ==
          IF Len(parts) # 2
          THEN [st EXCEPT !.errors =
                  Append(@, <<"L","i","n","e"," ">> \o Str(line_num) \o <<":"," ","I","n","v","a","l","i","d"," ","f","o","r","m","a","t">>)]
          ELSE IF ~ValidUrl(parts[2])
          THEN [st EXCEPT !.errors =
                  Append(@, <<"L","i","n","e"," ">> \o Str(line_num) \o <<":"," ","I","n","v","a","l","i","d"," ","U","R","L">>)]
          ELSE [st EXCEPT
                  !.db = DictSet(@, parts[2], LabelData(parts[1])),
                  !.added = Append(@, escape_html(parts[1]) \o <<" ", Arrow, " ">>
                                      \o escape_html(parts[2]))]
    IN  addurls_loop(next, Tail(lines), line_num + 1)

\* cmd_addurls
cmd_addurls(db, f, m, o) ==
    IF ~is_admin(m.from) THEN Answer(db, f, <<Fixed("denied")>>)
    ELSE
    LET lines == Tail(splitlines(m.text))
    IN  IF lines = <<>> THEN Answer(db, f, <<Fixed("usage_addurls")>>)
        ELSE
        LET st == addurls_loop([db |-> db, added |-> <<>>, errors |-> <<>>], lines, 1)
            response ==
              IF st.added = <<>> /\ st.errors = <<>> THEN Fixed("no_valid_urls")
              ELSE Reply("batch_added", <<>>, st.added, st.errors)
        IN  IF st.added # <<>> THEN Saved(st.db, f, o, <<response>>)
            ELSE Answer(st.db, f, <<response>>)

\* Mutant of cmd_delurl: the url is popped from the registry whether it is a
\* key or not, and the handler saves and reports the removal.
cmd_delurl_pop(db, f, m, o) ==
    IF ~is_admin(m.from) THEN Answer(db, f, <<Fixed("denied")>>)
    ELSE
    LET parts == split(m.text, 1)
    IN  IF Len(parts) # 2 THEN Answer(db, f, <<Fixed("usage_delurl")>>)
        ELSE Saved(IF HasKey(db, parts[2]) THEN DictDel(db, parts[2]) ELSE db, f, o,
                   <<Reply("removed", escape_html(parts[2]), <<>>, <<>>)>>)

\* cmd_delurl
cmd_delurl(db, f, m, o) ==
    IF ~is_admin(m.from) THEN Answer(db, f, <<Fixed("denied")>>)
    ELSE
    LET parts == split(m.text, 1)
    IN  IF Len(parts) # 2 THEN Answer(db, f, <<Fixed("usage_delurl")>>)
        ELSE
        LET url == parts[2]
        IN  IF HasKey(db, url)
            THEN Saved(DictDel(db, url), f, o,
                       <<Reply("removed", escape_html(url), <<>>, <<>>)>>)
            ELSE Answer(db, f, <<Fixed("not_found")>>)

\* The for loop of cmd_delurls; st is [db, removed, not_found].
RECURSIVE delurls_loop(_, _)
delurls_loop(st, lines) ==
    IF lines = <<>> THEN st
    ELSE
    LET url == strip(Head(lines))
        next ==
          IF url = <<>> THEN st
          ELSE IF HasKey(st.db, url)
          THEN [st EXCEPT !.db = DictDel(@, url),
                          !.removed = Append(@, escape_html(url))]
          ELSE [st EXCEPT !.not_found = Append(@, escape_html(url))]
    IN  delurls_loop(next, Tail(lines))

\* cmd_delurls
cmd_delurls(db, f, m, o) ==
    IF ~is_admin(m.from) THEN Answer(db, f, <<Fixed("denied")>>)
    ELSE
    LET lines == Tail(splitlines(m.text))
    IN  IF lines = <<>> THEN Answer(db, f, <<Fixed("usage_delurls")>>)
        ELSE
        LET st == delurls_loop([db |-> db, removed |-> <<>>, not_found |-> <<>>], lines)
            response ==
              IF st.removed = <<>> /\ st.not_found = <<>> THEN Fixed("no_urls_to_remove")
              ELSE Reply("batch_removed", <<>>, st.removed, st.not_found)
        IN  IF st.removed # <<>> THEN Saved(st.db, f, o, <<response>>)
            ELSE Answer(st.db, f, <<response>>)

\* Mutant of cmd_setbutton: the label is changed in memory and reported, and
\* the registry is not saved.
cmd_setbutton_unsaved(db, f, m, o) ==
    IF ~is_admin(m.from) THEN Answer(db, f, <<Fixed("denied")>>)
    ELSE
    LET parts == split(m.text, 2)
    IN  IF Len(parts) < 3 THEN Answer(db, f, <<Fixed("usage_setbutton")>>)
        ELSE
        LET url == parts[2]
            label == parts[3]
        IN  IF ~HasKey(db, url) THEN Answer(db, f, <<Fixed("not_found")>>)
            ELSE Answer(DictSet(db, url, LabelData(label)), f,
                        <<Reply("updated", <<>>, <<escape_html(url), escape_html(label)>>, <<>>)>>)

\* cmd_setbutton
cmd_setbutton(db, f, m, o) ==
    IF ~is_admin(m.from) THEN Answer(db, f, <<Fixed("denied")>>)
    ELSE
    LET parts == split(m.text, 2)
    IN  IF Len(parts) < 3 THEN Answer(db, f, <<Fixed("usage_setbutton")>>)
        ELSE
        LET url == parts[2]
            label == parts[3]
        IN  IF ~HasKey(db, url) THEN Answer(db, f, <<Fixed("not_found")>>)
            ELSE Saved(DictSet(db, url, LabelData(label)), f, o,
                       <<Reply("updated", <<>>, <<escape_html(url), escape_html(label)>>, <<>>)>>)

NoLabel == <<"N","o"," ","L","a","b","e","l">>

\* The first line of the listing.
ListHeader(db) == <<"<","b",">","S","a","v","e","d"," ","L","i","n","k","s"," ","(">> \o Str(Len(db)) \o <<")",":","<","/","b",">","\n","\n">>

\* The line of entry number i of the listing.
ListLine(db, i) ==
    Str(i) \o <<"."," ">> \o escape_html(GetLabel(db[i].data, NoLabel))
           \o <<" ", Arrow, " ">> \o escape_html(db[i].url) \o <<"\n">>

\* The first for loop of cmd_listurls: the listing text from entry i on.
RECURSIVE ListText(_, _)
ListText(db, i) ==
    IF i > Len(db) THEN <<>> ELSE ListLine(db, i) \o ListText(db, i + 1)

\* Mutant of chunk_loop: the line that does not fit the current chunk is
\* dropped, and the next chunk starts empty.
RECURSIVE chunk_loop_drop(_, _, _)
chunk_loop_drop(st, db, i) ==
    IF i > Len(db) THEN st
    ELSE
    LET line == ListLine(db, i)
        next ==
          IF Len(st.current_chunk \o line) > ChunkLimit
          THEN [chunks |-> Append(st.chunks, st.current_chunk), current_chunk |-> <<>>]
          ELSE [st EXCEPT !.current_chunk = @ \o line]
    IN  chunk_loop_drop(next, db, i + 1)

\* The second for loop of cmd_listurls, from entry i on; st is
\* [chunks, current_chunk].
RECURSIVE chunk_loop(_, _, _)
chunk_loop(st, db, i) ==
    IF i > Len(db) THEN st
    ELSE
    LET line == ListLine(db, i)
        next ==
          IF Len(st.current_chunk \o line) > ChunkLimit
          THEN [chunks |-> Append(st.chunks, st.current_chunk), current_chunk |-> line]
          ELSE [st EXCEPT !.current_chunk = @ \o line]
    IN  chunk_loop(next, db, i + 1)

\* The chunks cmd_listurls sends for a listing longer than the limit.
ListChunks(db) ==
    LET st == chunk_loop([chunks |-> <<>>, current_chunk |-> ListHeader(db)], db, 1)
    IN  IF st.current_chunk # <<>> THEN Append(st.chunks, st.current_chunk)
        ELSE st.chunks

\* One reply per text, in order.
Listing(texts) == [i \in 1..Len(texts) |-> Reply("listing", texts[i], <<>>, <<>>)]

\* cmd_listurls
cmd_listurls(db, f, m, o) ==
    IF ~is_admin(m.from) THEN Answer(db, f, <<Fixed("denied")>>)
    ELSE IF db = <<>> THEN Answer(db, f, <<Fixed("no_links")>>)
    ELSE IF Len(ListHeader(db) \o ListText(db, 1)) > ChunkLimit
    THEN Answer(db, f, Listing(ListChunks(db)))
    ELSE Answer(db, f, Listing(<<ListHeader(db) \o ListText(db, 1)>>))

(***************************************************************************)
(* The auto-format handler (main.py, "AUTO FORMAT HANDLER").               *)
(***************************************************************************)
\* Mutant of found_urls: a key matches when it is one of the words of the
\* text (url in text.split()).
RECURSIVE found_urls_words(_, _)
found_urls_words(db, text) ==
    IF db = <<>> THEN <<>>
    ELSE (IF \E k \in 1..Len(split(text, -1)) : split(text, -1)[k] = Head(db).url
          THEN <<Head(db).url>> ELSE <<>>)
         \o found_urls_words(Tail(db), text)

\* [url for url in links_db if url in text]
RECURSIVE found_urls(_, _)
found_urls(db, text) ==
    IF db = <<>> THEN <<>>
    ELSE (IF Contains(text, Head(db).url) THEN <<Head(db).url>> ELSE <<>>)
         \o found_urls(Tail(db), text)

\* The second group of the pattern (code[:\s]*)([A-Za-z0-9@_-]+) for a match
\* that starts at index i of text, <<>> when there is no match at i: the
\* literal "code" in any case, the longest run of ':' and whitespace, then the
\* longest run of code characters, which must not be empty.
CodeAt(text, i) ==
    IF i + 3 > Len(text)
       \/ [j \in 1..4 |-> FoldCase(text[i + j - 1])] # <<"c","o","d","e">>
    THEN <<>>
    ELSE LET rest == Drop(text, i + 4)
             tail == Drop(rest, FirstNotIn(rest, CodeSeparators))
         IN  SubSeq(tail, 1, FirstNotIn(tail, CodeChars) - 1)

\* re.search(...): the leftmost match, as <<group 2>>, or <<>> for None.
code_match(text) ==
    LET starts == {i \in 1..Len(text) : CodeAt(text, i) # <<>>}
    IN  IF starts = {} THEN <<>>
        ELSE <<CodeAt(text, CHOOSE i \in starts : \A j \in starts : i <= j)>>

\* code_text
code_text(text) ==
    IF code_match(text) = <<>> THEN <<>>
    ELSE <<"<","b",">","C","o","d","e",":","<","/","b",">"," ">> \o escape_html(code_match(text)[1]) \o <<"\n","\n">>

\* first_line
first_line(text) ==
    IF splitlines(text) # <<>> THEN splitlines(text)[1] ELSE <<"R","e","f","e","r","r","a","l"," ","L","i","n","k","s">>

\* new_text
new_text(text) ==
    <<"<","b",">">> \o escape_html(first_line(text)) \o <<"<","/","b",">","\n","\n">> \o code_text(text)
            \o <<"<","b",">","L","i","n","k","s"," ","b","e","l","o","w",":","<","/","b",">">>

EditError == [kind |-> "edit_error", written |-> 0]

\* Mutant of auto_edit: after a failed edit the handler sends the new text
\* as a reply (the msg.reply call of the except branch).
auto_edit_resend(db, f, m, o) ==
    IF m.text = <<>> \/ db = <<>> THEN Answer(db, f, <<>>)
    ELSE IF found_urls(db, m.text) = <<>> THEN Answer(db, f, <<>>)
    ELSE Result(db, f,
                IF o.kind = "ok" THEN <<>>
                ELSE <<Reply("resent", new_text(m.text), <<>>, <<>>)>>,
                <<[text |-> new_text(m.text),
                   title |-> escape_html(first_line(m.text)),
                   code |-> IF code_match(m.text) = <<>> THEN <<>>
                            ELSE escape_html(code_match(m.text)[1]),
                   urls |-> found_urls(db, m.text),
                   keyboard |-> build_keyboard(db, found_urls(db, m.text)),
                   ok |-> o.kind = "ok"]>>,
                0, 0, FALSE)

\* auto_edit: at most one bot.edit_message_text call, which succeeds or
\* raises (o); the exception is caught and logged.
auto_edit(db, f, m, o) ==
    IF m.text = <<>> \/ db = <<>> THEN Answer(db, f, <<>>)
    ELSE IF found_urls(db, m.text) = <<>> THEN Answer(db, f, <<>>)
    ELSE Result(db, f, <<>>,
                <<[text |-> new_text(m.text),
                   title |-> escape_html(first_line(m.text)),
                   code |-> IF code_match(m.text) = <<>> THEN <<>>
                            ELSE escape_html(code_match(m.text)[1]),
                   urls |-> found_urls(db, m.text),
                   keyboard |-> build_keyboard(db, found_urls(db, m.text)),
                   ok |-> o.kind = "ok"]>>,
                0, 0, FALSE)

(***************************************************************************)
(* Dispatch (the @dp.message decorators): the first registered handler     *)
(* whose Command filter accepts the message runs; auto_edit takes every    *)
(* message no command handler took.                                        *)
(***************************************************************************)
Route(m) ==
    LET parts == split(m.text, 1)
        word == IF parts = <<>> THEN <<>> ELSE parts[1]
    IN  CASE word = <<"/","s","t","a","r","t">> -> "cmd_start"
          [] word = <<"/","a","d","d","u","r","l">> -> "cmd_addurl"
          [] word = <<"/","a","d","d","u","r","l","s">> -> "cmd_addurls"
          [] word = <<"/","d","e","l","u","r","l">> -> "cmd_delurl"
          [] word = <<"/","d","e","l","u","r","l","s">> -> "cmd_delurls"
          [] word = <<"/","l","i","s","t","u","r","l","s">> -> "cmd_listurls"
          [] word = <<"/","s","e","t","b","u","t","t","o","n">> -> "cmd_setbutton"
          [] OTHER -> "auto_edit"

(***************************************************************************)
(* The messages of the model.                                              *)
(***************************************************************************)
UrlA == <<"h","t","t","p",":","/","/","a">>

UrlB == <<"h","t","t","p","s",":","/","/","b">>

Texts ==
    { <<"/","s","t","a","r","t">>,
      <<"/","a","d","d","u","r","l"," ","L"," ","h","t","t","p",":","/","/","a">>,
      <<"/","a","d","d","u","r","l"," ","<","&"," ","h","t","t","p","s",":","/","/","b">>,
      <<"/","a","d","d","u","r","l"," ","<","&"," ","h","t","t","p",":","/","/","a">>,
      <<"/","a","d","d","u","r","l"," ","L"," ","f","t","p",":","/","/","c">>,
      <<"/","a","d","d","u","r","l"," ","L">>,
      <<"/","a","d","d","u","r","l","s">>,
      <<"/","a","d","d","u","r","l","s","\n","L"," ","h","t","t","p",":","/","/","a","\n","b","a","d","\n","<","&"," ","h","t","t","p","s",":","/","/","b">>,
      <<"/","a","d","d","u","r","l","s","\n","<","&"," ","h","t","t","p","s",":","/","/","b","\n"," ","L"," "," ","h","t","t","p",":","/","/","a"," ","\n","L"," ","f","t","p",":","/","/","c">>,
      <<"/","a","d","d","u","r","l","s","\n","\n","L"," ","f","t","p",":","/","/","c">>,
      <<"/","a","d","d","u","r","l","s","\n","L"," ","h","t","t","p",":","/","/","a","\n","<","&"," ","h","t","t","p",":","/","/","a">>,
      <<"/","d","e","l","u","r","l"," ","h","t","t","p",":","/","/","a">>,
      <<"/","d","e","l","u","r","l"," ","h","t","t","p","s",":","/","/","b">>,
      <<"/","d","e","l","u","r","l">>,
      <<"/","d","e","l","u","r","l","s">>,
      <<"/","d","e","l","u","r","l","s","\n","h","t","t","p",":","/","/","a","\n","\n","f","t","p",":","/","/","c","\n"," ","h","t","t","p","s",":","/","/","b"," ">>,
      <<"/","d","e","l","u","r","l","s","\n","h","t","t","p","s",":","/","/","b","\n","h","t","t","p","s",":","/","/","b">>,
      <<"/","d","e","l","u","r","l","s","\n"," ","\n">>,
      <<"/","l","i","s","t","u","r","l","s">>,
      <<"/","l","i","s","t","u","r","l","s"," ","n","o","w">>,
      <<"/","s","e","t","b","u","t","t","o","n"," ","h","t","t","p",":","/","/","a"," ","<","&">>,
      <<"/","s","e","t","b","u","t","t","o","n"," ","h","t","t","p","s",":","/","/","b"," ","L">>,
      <<"/","s","e","t","b","u","t","t","o","n"," ","h","t","t","p",":","/","/","a">>,
      <<>>,
      <<"h","i"," ","<","b",">"," ","c","o","d","e">>,
      <<"a","<","b",">","&","c"," ","h","t","t","p","s",":","/","/","b","/","r"," ","x","h","t","t","p",":","/","/","a","y","\n","C","o","d","e",":"," ","A","-","1"," ","x">>,
      <<"d","e","c","o","d","e","r",":"," ","h","t","t","p",":","/","/","a",">","\n","c","o","d","e",":">>,
      <<"\n","h","t","t","p","s",":","/","/","b","?","c","o","d","e","=","9"," ","C","O","D","E","_","x">> }

Messages == [from : Users, text : Texts]

\* The messages each handler receives.
RouteOf == [m \in Messages |-> Route(m)]

\* The messages of the runs in which the store fails: the admin's commands
\* that change the registry, one of each kind.
StoreTexts ==
    { <<"/","a","d","d","u","r","l"," ","L"," ","h","t","t","p",":","/","/","a">>,
      <<"/","a","d","d","u","r","l","s","\n","L"," ","h","t","t","p",":","/","/","a","\n","b","a","d","\n","<","&"," ","h","t","t","p","s",":","/","/","b">>,
      <<"/","d","e","l","u","r","l"," ","h","t","t","p",":","/","/","a">>,
      <<"/","d","e","l","u","r","l","s","\n","h","t","t","p",":","/","/","a","\n","\n","f","t","p",":","/","/","c","\n"," ","h","t","t","p","s",":","/","/","b"," ">>,
      <<"/","s","e","t","b","u","t","t","o","n"," ","h","t","t","p","s",":","/","/","b"," ","L">> }

StoreMessages == [from : ADMIN_IDS, text : StoreTexts]

NoMsg == [from |-> 0, text |-> <<>>]

\* The files links.json can hold when the process starts: none, a broken
\* one, and registries that are empty, of an entry with a label, of an entry
\* without the label field, and of an entry whose label is the empty string.
InitFiles ==
    { NoFile,
      FileOf(<<OpenTok>>),
      FileOf(Serialize(<<>>)),
      FileOf(Serialize(<<Entry(UrlB, LabelData(<<"L">>))>>)),
      FileOf(Serialize(<<Entry(UrlA, NoLabelData)>>)),
      FileOf(Serialize(<<Entry(UrlA, LabelData(<<>>))>>)) }

(***************************************************************************)
(* State.                                                                  *)
(***************************************************************************)
VARIABLES
    links_db,       \* the registry (module global links_db)
    file,           \* links.json
    pc,             \* where main() is: "loop", "polling", "sleeping", "done",
                    \* or "killed" for a process stopped inside save_links
    retry_count,    \* main's retry_count
    waits,          \* the wait_time of every asyncio.sleep of main, in order
    pending,        \* the transport's update backlog: "stale" or "cleared"
    session_open,   \* bot.session is open
    interrupted,    \* a KeyboardInterrupt ended main
    attempts,       \* dp.start_polling calls so far
    returns,        \* of which returned normally
    save_failures,  \* save_links calls that logged an error so far
    handler,        \* the handler the last step ran, "none" for a step of main
    msg,            \* its message
    pre_db,         \* links_db before it ran
    pre_file,       \* file before it ran
    replies,        \* its msg.reply calls, in order
    edits,          \* its bot.edit_message_text calls, in order
    saves,          \* its save_links calls
    save_errors,    \* of which logged an error
    tasks,          \* the handler coroutines the dispatcher has created
    responses       \* the responses of the keep-alive server, in order

store_vars == <<links_db, file, save_failures>>

main_vars == <<retry_count, waits, pending, session_open, interrupted, attempts, returns>>

obs_vars == <<handler, msg, pre_db, pre_file, replies, edits, saves, save_errors>>

aux_vars == <<tasks, responses>>

vars == <<links_db, file, pc, retry_count, waits, pending, session_open, interrupted,
          attempts, returns, save_failures, handler, msg, pre_db, pre_file,
          replies, edits, saves, save_errors, tasks, responses>>

\* No handler ran in this step.
NoHandler ==
    /\ handler' = "none"
    /\ msg' = NoMsg
    /\ pre_db' = <<>>
    /\ pre_file' = NoFile
    /\ replies' = <<>>
    /\ edits' = <<>>
    /\ saves' = 0
    /\ save_errors' = 0

\* Module load: links_db = load_links(); main() has not started its loop.
Init ==
    /\ file \in InitFiles
    /\ links_db = load_links(file)
    /\ pc = "loop"
    /\ retry_count = 0
    /\ waits = <<>>
    /\ pending = "stale"
    /\ session_open = FALSE
    /\ interrupted = FALSE
    /\ attempts = 0
    /\ returns = 0
    /\ save_failures = 0
    /\ handler = "none"
    /\ msg = NoMsg
    /\ pre_db = <<>>
    /\ pre_file = NoFile
    /\ replies = <<>>
    /\ edits = <<>>
    /\ saves = 0
    /\ save_errors = 0
    /\ tasks = <<>>
    /\ responses = <<>>

(***************************************************************************)
(* main(): the restart loop.                                               *)
(***************************************************************************)
Min(a, b) == IF a < b THEN a ELSE b

\* Mutant of wait_time: linear instead of exponential backoff.
wait_time_linear(n) == Min(BackoffCap, 2 * n)

\* wait_time = min(60, 2 ** retry_count)
wait_time(n) == Min(BackoffCap, 2 ^ n)

\* The while test, and for a true test on_startup() and the call of
\* dp.start_polling.  delete_webhook(drop_pending_updates=True) clears the
\* backlog or raises; on_startup catches and logs the exception.
StartAttempt ==
    /\ pc = "loop"
    /\ IF retry_count < max_retries
       THEN /\ \E p \in {"cleared", "stale"} : pending' = p
            /\ session_open' = TRUE
            /\ attempts' = attempts + 1
            /\ pc' = "polling"
       ELSE /\ pc' = "done"
            /\ UNCHANGED <<pending, session_open, attempts>>
    /\ UNCHANGED <<retry_count, waits, interrupted, returns>>
    /\ UNCHANGED store_vars
    /\ UNCHANGED aux_vars
    /\ NoHandler

\* dp.start_polling raises an Exception: the except branch up to its sleep,
\* or up to its break, which runs on_shutdown() and leaves main.
PollingFails ==
    /\ pc = "polling"
    /\ retry_count' = retry_count + 1
    /\ IF retry_count + 1 < max_retries
       THEN /\ waits' = Append(waits, wait_time(retry_count + 1))
            /\ pc' = "sleeping"
            /\ UNCHANGED session_open
       ELSE /\ pc' = "done"
            /\ session_open' = FALSE
            /\ UNCHANGED waits
    /\ UNCHANGED <<pending, interrupted, attempts, returns>>
    /\ UNCHANGED store_vars
    /\ UNCHANGED aux_vars
    /\ NoHandler

\* asyncio.sleep(wait_time) is over: finally on_shutdown(), back to the test.
WakeUp ==
    /\ pc = "sleeping"
    /\ pc' = "loop"
    /\ session_open' = FALSE
    /\ UNCHANGED <<retry_count, waits, pending, interrupted, attempts, returns>>
    /\ UNCHANGED store_vars
    /\ UNCHANGED aux_vars
    /\ NoHandler

\* Mutant of PollingReturns: a polling run that returns normally resets the
\* failure counter.
PollingReturns_reset ==
    /\ pc = "polling"
    /\ returns < MaxReturns
    /\ returns' = returns + 1
    /\ retry_count' = 0
    /\ pc' = "loop"
    /\ session_open' = FALSE
    /\ UNCHANGED <<waits, pending, interrupted, attempts>>
    /\ UNCHANGED store_vars
    /\ UNCHANGED aux_vars
    /\ NoHandler

\* dp.start_polling returns without an exception: finally on_shutdown(),
\* back to the test.
PollingReturns ==
    /\ pc = "polling"
    /\ returns < MaxReturns
    /\ returns' = returns + 1
    /\ pc' = "loop"
    /\ session_open' = FALSE
    /\ UNCHANGED <<retry_count, waits, pending, interrupted, attempts>>
    /\ UNCHANGED store_vars
    /\ UNCHANGED aux_vars
    /\ NoHandler

\* Mutant of Interrupt: an interrupt during the backoff wait only ends the
\* wait, as the end of the sleep does.
Interrupt_wakes ==
    /\ pc \in {"polling", "sleeping"}
    /\ pc' = IF pc = "sleeping" THEN "loop" ELSE "done"
    /\ interrupted' = TRUE
    /\ session_open' = FALSE
    /\ UNCHANGED <<retry_count, waits, pending, attempts, returns>>
    /\ UNCHANGED store_vars
    /\ UNCHANGED aux_vars
    /\ NoHandler

\* KeyboardInterrupt: raised out of start_polling it takes the break of the
\* except KeyboardInterrupt branch; raised out of the sleep it leaves main
\* through the finally clause and is caught under __main__.
Interrupt ==
    /\ pc \in {"polling", "sleeping"}
    /\ pc' = "done"
    /\ interrupted' = TRUE
    /\ session_open' = FALSE
    /\ UNCHANGED <<retry_count, waits, pending, attempts, returns>>
    /\ UNCHANGED store_vars
    /\ UNCHANGED aux_vars
    /\ NoHandler

(***************************************************************************)
(* Message handling.  The dispatcher runs handlers while polling; a        *)
(* handler has no await between its first read of links_db and the end of  *)
(* its save_links call, so the step of a handler is atomic.                *)
(***************************************************************************)
\* The process is stopped inside save_links after k pieces were written.
KillOutcomes(d) ==
    {[kind |-> "killed", written |-> k] : k \in 0..Len(Serialize(d))}

\* The outcomes of the calls a handler makes, r0 being what it does when
\* every call succeeds.  The store fails only in the steps that say so.
Outcomes(r0, faulty) ==
    IF r0.saves > 0
    THEN (IF faulty THEN SaveOutcomes(r0.db) \cup KillOutcomes(r0.db) ELSE {Ok})
    ELSE IF r0.edits # <<>> THEN {Ok, EditError}
    ELSE {Ok}

\* The handler named name, F, runs on one of the messages M routed to it.
Handle(name, F(_, _, _, _), M, faulty) ==
    /\ pc = "polling"
    /\ \E m \in M :
        /\ RouteOf[m] = name
        /\ \E r0 \in {F(links_db, file, m, Ok)} :
           \E o \in Outcomes(r0, faulty) :
           \E r \in {IF o = Ok THEN r0 ELSE F(links_db, file, m, o)} :
                /\ save_failures + r.save_errors <= MaxSaveFailures
                /\ links_db' = r.db
                /\ file' = r.file
                /\ save_failures' = save_failures + r.save_errors
                /\ pc' = IF r.killed THEN "killed" ELSE pc
                /\ handler' = name
                /\ msg' = m
                /\ pre_db' = links_db
                /\ pre_file' = file
                /\ replies' = r.replies
                /\ edits' = r.edits
                /\ saves' = r.saves
                /\ save_errors' = r.save_errors
    /\ UNCHANGED main_vars
    /\ UNCHANGED aux_vars

Start == Handle("cmd_start", cmd_start, Messages, FALSE)

Addurl == Handle("cmd_addurl", cmd_addurl, Messages, FALSE)

Addurls == Handle("cmd_addurls", cmd_addurls, Messages, FALSE)

Delurl == Handle("cmd_delurl", cmd_delurl, Messages, FALSE)

Delurls == Handle("cmd_delurls", cmd_delurls, Messages, FALSE)

Listurls == Handle("cmd_listurls", cmd_listurls, Messages, FALSE)

Setbutton == Handle("cmd_setbutton", cmd_setbutton, Messages, FALSE)

AutoEdit == Handle("auto_edit", auto_edit, Messages, FALSE)

\* The same handlers with a store that can fail.
AddurlFaulty == Handle("cmd_addurl", cmd_addurl, StoreMessages, TRUE)

AddurlsFaulty == Handle("cmd_addurls", cmd_addurls, StoreMessages, TRUE)

DelurlFaulty == Handle("cmd_delurl", cmd_delurl, StoreMessages, TRUE)

DelurlsFaulty == Handle("cmd_delurls", cmd_delurls, StoreMessages, TRUE)

SetbuttonFaulty == Handle("cmd_setbutton", cmd_setbutton, StoreMessages, TRUE)

(***************************************************************************)
(* Specifications.  The handlers neither read nor write the variables of   *)
(* main() apart from the test pc = "polling", and main() neither reads nor *)
(* writes the registry and the file, so the handlers are checked in the    *)
(* runs whose first polling call never ends (SpecHandlers, SpecStore) and  *)
(* the loop in the runs without messages (SpecMain).  Spec is the whole    *)
(* program.                                                                *)
(***************************************************************************)
NextMain ==
    \/ StartAttempt
    \/ PollingFails
    \/ WakeUp
    \/ PollingReturns
    \/ Interrupt

NextHandlers ==
    \/ StartAttempt
    \/ Start
    \/ Addurl
    \/ Addurls
    \/ Delurl
    \/ Delurls
    \/ Listurls
    \/ Setbutton
    \/ AutoEdit

NextStore ==
    \/ StartAttempt
    \/ AddurlFaulty
    \/ AddurlsFaulty
    \/ DelurlFaulty
    \/ DelurlsFaulty
    \/ SetbuttonFaulty

Next == NextMain \/ NextHandlers \/ NextStore

Spec == Init /\ [][Next]_vars

SpecMain == Init /\ [][NextMain]_vars

SpecHandlers == Init /\ [][NextHandlers]_vars

SpecStore == Init /\ [][NextStore]_vars

(***************************************************************************)
(* The listing specification: cmd_listurls on registries whose listing is  *)
(* longer than one reply.  It starts while polling, from the registries    *)
(* that addurl commands with these labels build, saved to the file.        *)
(***************************************************************************)
\* n times the character c.
Rep(c, n) == [i \in 1..n |-> c]

\* Labels of 1 character, of 1300 characters, of the 3960 characters that
\* fill the first reply to the limit exactly, and of 1000 characters that
\* escape_html expands to 4000.
ListLabels == { <<"L">>, Rep("x", 1300), Rep("x", 3960), Rep("<", 1000) }

\* The url of entry i.
ListUrl(i) == <<"h","t","t","p",":","/","/">> \o Str(i)

ListRegistries ==
    UNION { { [i \in 1..n |-> Entry(ListUrl(i), LabelData(ls[i]))] :
                ls \in [1..n -> ListLabels] } : n \in 1..MaxListEntries }

InitList ==
    /\ links_db \in ListRegistries
    /\ file = FileOf(Serialize(links_db))
    /\ pc = "polling"
    /\ retry_count = 0
    /\ waits = <<>>
    /\ pending = "cleared"
    /\ session_open = TRUE
    /\ interrupted = FALSE
    /\ attempts = 1
    /\ returns = 0
    /\ save_failures = 0
    /\ handler = "none"
    /\ msg = NoMsg
    /\ pre_db = <<>>
    /\ pre_file = NoFile
    /\ replies = <<>>
    /\ edits = <<>>
    /\ saves = 0
    /\ save_errors = 0
    /\ tasks = <<>>
    /\ responses = <<>>

\* cmd_listurls on the plain command, from the admin and from the other user.
ListMessages == [from : Users, text : {<<"/","l","i","s","t","u","r","l","s">>}]

ListurlsLong == Handle("cmd_listurls", cmd_listurls, ListMessages, FALSE)

NextList == ListurlsLong

SpecList == InitList /\ [][NextList]_vars

(***************************************************************************)
(* Properties.                                                             *)
(***************************************************************************)
\* The commands that need the admin allow-list.
AdminCommands ==
    {"cmd_addurl", "cmd_addurls", "cmd_delurl", "cmd_delurls", "cmd_setbutton",
     "cmd_listurls"}

\* C1: a sender outside the admin allow-list who issues addurl, addurls,
\* delurl, delurls, setbutton or listurls gets the one fixed denial reply, and
\* the registry and the file are as they were, whatever the command text; no
\* save and no edit is made.
C1_DeniedWithoutMutation ==
    (handler \in AdminCommands /\ msg.from \notin ADMIN_IDS) =>
        /\ replies = <<Fixed("denied")>>
        /\ links_db = pre_db
        /\ file = pre_file
        /\ saves = 0
        /\ edits = <<>>

\* C1 witness: the other user sends a well-formed delurl for a url that is a
\* key of the registry, and is denied.
C1_Witness ==
    /\ handler = "cmd_delurl"
    /\ msg = [from |-> 2, text |-> <<"/","d","e","l","u","r","l"," ","h","t","t","p",":","/","/","a">>]
    /\ HasKey(pre_db, UrlA)
    /\ replies = <<Fixed("denied")>>

\* C2 as stated: after the k-th failure, for every k up to the fifth, main
\* waits min(60, 2^k), so that five failures give the waits 2,4,8,16,32.
C2_Original ==
    waits = [k \in 1..retry_count |-> IF 2 ^ k < 60 THEN 2 ^ k ELSE 60]

\* C2 amended: main waits 2^k after the k-th failure for k = 1..4, and after
\* the fifth failure it does not wait: the waits are 2,4,8,16 and no more.
C2_BackoffWaits ==
    /\ Len(waits) = (IF retry_count < 5 THEN retry_count ELSE 4)
    /\ \A k \in 1..Len(waits) : waits[k] = <<2, 4, 8, 16>>[k]

\* C2 witness: the fifth failure has ended main after the waits 2,4,8,16.
C2_Witness ==
    /\ pc = "done"
    /\ retry_count = 5
    /\ waits = <<2, 4, 8, 16>>

\* C3: when every polling call fails, main makes exactly five of them: the
\* fifth failure ends main, nothing can follow it, and a run that ended
\* without an interrupt has failed five times.
C3_FiveAttempts ==
    (returns = 0) =>
        /\ attempts <= 5
        /\ (retry_count = 5 => (pc = "done" /\ attempts = 5 /\ ~ENABLED NextMain))
        /\ ((pc = "done" /\ ~interrupted) => (retry_count = 5 /\ attempts = 5))

\* C3 witness: main has ended after five failed polling calls.
C3_Witness ==
    /\ pc = "done"
    /\ returns = 0
    /\ ~interrupted
    /\ attempts = 5
    /\ retry_count = 5

\* The character at index i of s starts one of the entities &amp; &lt; &gt;.
EntityAt(s, i) ==
    \E e \in { <<"&","a","m","p",";">>, <<"&","l","t",";">>, <<"&","g","t",";">> } :
        i + Len(e) - 1 <= Len(s) /\ SubSeq(s, i, i + Len(e) - 1) = e

\* s holds no raw '<' or '>' and each '&' of s starts a complete entity.
MarkupSafe(s) ==
    \A i \in 1..Len(s) :
        /\ s[i] \notin {"<", ">"}
        /\ s[i] = "&" => EntityAt(s, i)

\* C4: the title line and the code that auto_edit embeds in the rewritten body
\* are escaped: no raw '<' or '>' is left in them and every '&' in them starts
\* one of the complete entities &amp; &lt; &gt;.
C4_BodyEscaped ==
    \A k \in 1..Len(edits) :
        /\ MarkupSafe(edits[k].title)
        /\ MarkupSafe(edits[k].code)
        /\ \E rest \in {<<>>, <<"<","b",">","C","o","d","e",":","<","/","b",">"," ">> \o edits[k].code \o <<"\n","\n">>} :
              edits[k].text = <<"<","b",">">> \o edits[k].title \o <<"<","/","b",">","\n","\n">> \o rest
                                \o <<"<","b",">","L","i","n","k","s"," ","b","e","l","o","w",":","<","/","b",">">>

\* C5: a listing longer than 4000 characters goes out as two or more replies,
\* each of at most 4000 characters and each ending at the end of an entry
\* line.
C5_ChunksWithinLimit ==
    (/\ handler = "cmd_listurls"
     /\ msg.from \in ADMIN_IDS
     /\ pre_db # <<>>
     /\ Len(ListHeader(pre_db) \o ListText(pre_db, 1)) > 4000) =>
        /\ Len(replies) >= 2
        /\ \A k \in 1..Len(replies) :
              /\ replies[k].kind = "listing"
              /\ Len(replies[k].text) <= 4000
              /\ replies[k].text[Len(replies[k].text)] = "\n"

\* C6: a process that stops inside a save leaves in the file either the
\* whole content it held before the save or the whole new registry.
C6_SaveIsAtomic ==
    (pc = "killed") =>
        \/ file = pre_file
        \/ file = FileOf(Serialize(links_db))

\* What handler h does with message m on registry db and file f, the calls
\* it makes having outcome o.
HandlerResult(h, db, f, m, o) ==
    CASE h = "cmd_start" -> cmd_start(db, f, m, o)
      [] h = "cmd_addurl" -> cmd_addurl(db, f, m, o)
      [] h = "cmd_addurls" -> cmd_addurls(db, f, m, o)
      [] h = "cmd_delurl" -> cmd_delurl(db, f, m, o)
      [] h = "cmd_delurls" -> cmd_delurls(db, f, m, o)
      [] h = "cmd_listurls" -> cmd_listurls(db, f, m, o)
      [] h = "cmd_setbutton" -> cmd_setbutton(db, f, m, o)
      [] OTHER -> auto_edit(db, f, m, o)

\* The registry holds what the command of the last step asked for.
MutationKept ==
    CASE handler = "cmd_addurl" ->
            HasKey(links_db, UrlA) /\ Lookup(links_db, UrlA) = LabelData(<<"L">>)
      [] handler = "cmd_addurls" ->
            /\ HasKey(links_db, UrlA) /\ Lookup(links_db, UrlA) = LabelData(<<"L">>)
            /\ HasKey(links_db, UrlB) /\ Lookup(links_db, UrlB) = LabelData(<<"<","&">>)
      [] handler = "cmd_delurl" ->
            HasKey(pre_db, UrlA) /\ ~HasKey(links_db, UrlA)
      [] handler = "cmd_delurls" ->
            Keys(pre_db) # {} /\ Keys(links_db) = {}
      [] handler = "cmd_setbutton" ->
            HasKey(links_db, UrlB) /\ Lookup(links_db, UrlB) = LabelData(<<"L">>)
      [] OTHER -> FALSE

\* The replies that report a change of the registry as done.
SuccessKinds == {"saved", "batch_added", "removed", "batch_removed", "updated"}

\* C7 as stated: when the save of a successful add, remove or relabel fails,
\* the change stays in the registry and the reply tells the sender so: it is
\* not the reply the command gives when its save succeeds.
C7_Original ==
    (save_errors > 0) =>
        /\ MutationKept
        /\ replies # HandlerResult(handler, pre_db, pre_file, msg, Ok).replies

\* C7 amended: when the save of a successful add, remove or relabel fails,
\* the change stays in the registry, the failure is logged only, and the
\* sender gets the one ordinary success reply of the command, with no warning.
C7_FailedSaveKeepsMutation ==
    (save_errors > 0) =>
        /\ MutationKept
        /\ saves = 1
        /\ pc = "polling"
        /\ Len(replies) = 1
        /\ replies[1].kind \in SuccessKinds

\* C7 witness: open() failed in the save of a delurl; the url is gone from the
\* registry, the file is the old one and the reply says removed.
C7_Witness ==
    /\ handler = "cmd_delurl"
    /\ save_errors = 1
    /\ HasKey(pre_db, UrlA)
    /\ ~HasKey(links_db, UrlA)
    /\ WellFormed(file.content)
    /\ HasKey(Parse(file.content), UrlA)
    /\ replies = <<Reply("removed", UrlA, <<>>, <<>>)>>

\* The lines of the batch command of the last step, after the command line.
BatchLines == Tail(splitlines(msg.text))

\* Label and url of line i of an addurls batch, when the line has both.
AddParts(i) == split(strip(BatchLines[i]), 1)

\* The lines of an addurls batch that hold a label and an http(s) url.
ValidAdds ==
    {i \in 1..Len(BatchLines) : Len(AddParts(i)) = 2 /\ ValidUrl(AddParts(i)[2])}

\* The urls named by the non-blank lines of a delurls batch.
NamedUrls == {strip(BatchLines[i]) : i \in 1..Len(BatchLines)} \ {<<>>}

\* The entries of d whose url is not in the set us, in the order of d.
Without(d, us) ==
    LET Keep(e) == e.url \notin us
    IN  SelectSeq(d, Keep)

\* C8: addurls and delurls treat every line on its own.  After an addurls
\* batch the registry is the old one with every valid line applied, whatever
\* lines stand before it: the keys are the old keys followed by the new urls,
\* each url carries the label of its last valid line, the reply lists one
\* entry per valid line and one error per other line.  After a delurls batch
\* the registry is the old one without the urls named, the others in their
\* old order, and every non-blank line is reported as removed or as not
\* found.  save_links is called once, after the batch, when a line succeeded,
\* and not at all when none did.
C8_BatchLinesIndependent ==
    /\ (handler = "cmd_addurls" /\ msg.from \in ADMIN_IDS /\ BatchLines # <<>>) =>
          /\ Keys(links_db) = Keys(pre_db) \cup {AddParts(i)[2] : i \in ValidAdds}
          /\ SubSeq(KeyList(links_db), 1, Len(pre_db)) = KeyList(pre_db)
          /\ \A i \in ValidAdds :
                (\A j \in ValidAdds : j > i => AddParts(j)[2] # AddParts(i)[2])
                  => Lookup(links_db, AddParts(i)[2]) = LabelData(AddParts(i)[1])
          /\ \A u \in Keys(pre_db) \ {AddParts(i)[2] : i \in ValidAdds} :
                Lookup(links_db, u) = Lookup(pre_db, u)
          /\ Len(replies) = 1
          /\ Len(replies[1].lines) = Cardinality(ValidAdds)
          /\ Len(replies[1].more) = Len(BatchLines) - Cardinality(ValidAdds)
          /\ saves = (IF ValidAdds # {} THEN 1 ELSE 0)
          /\ file = (IF ValidAdds # {} THEN FileOf(Serialize(links_db)) ELSE pre_file)
    /\ (handler = "cmd_delurls" /\ msg.from \in ADMIN_IDS /\ BatchLines # <<>>) =>
          /\ links_db = Without(pre_db, NamedUrls)
          /\ Len(replies) = 1
          /\ Len(replies[1].lines) = Cardinality(NamedUrls \cap Keys(pre_db))
          /\ Len(replies[1].lines) + Len(replies[1].more)
               = Cardinality({i \in 1..Len(BatchLines) : strip(BatchLines[i]) # <<>>})
          /\ saves = (IF NamedUrls \cap Keys(pre_db) # {} THEN 1 ELSE 0)
          /\ file = (IF NamedUrls \cap Keys(pre_db) # {} THEN FileOf(Serialize(links_db))
                     ELSE pre_file)

\* C8 witness: an addurls batch of a valid line, a malformed line and a valid
\* line on a registry that holds the first url only: the line after the
\* malformed one is applied, the registry gains exactly one entry, the reply
\* holds two entries and one error, and the store was written once.
C8_Witness ==
    /\ handler = "cmd_addurls"
    /\ msg = [from |-> 1, text |-> <<"/","a","d","d","u","r","l","s","\n","L"," ","h","t","t","p",":","/","/","a","\n","b","a","d","\n","<","&"," ","h","t","t","p","s",":","/","/","b">>]
    /\ KeyList(pre_db) = <<UrlA>>
    /\ KeyList(links_db) = <<UrlA, UrlB>>
    /\ Len(replies[1].lines) = 2
    /\ replies[1].more = << <<"L","i","n","e"," ","2",":"," ","I","n","v","a","l","i","d"," ","f","o","r","m","a","t">> >>
    /\ saves = 1

\* C9: delurl of a url that is no key of the registry answers not found and
\* leaves the registry, its order and the file as they were, without a save;
\* a delurls line that names no key is reported as not found, the entries
\* whose urls are keys that no line names stay in their order, and a batch
\* none of whose lines names a key leaves registry and file as they were.
C9_RemoveAbsentUrl ==
    /\ (/\ handler = "cmd_delurl"
        /\ msg.from \in ADMIN_IDS
        /\ Len(split(msg.text, 1)) = 2
        /\ split(msg.text, 1)[2] \notin Keys(pre_db)) =>
          /\ replies = <<Fixed("not_found")>>
          /\ links_db = pre_db
          /\ file = pre_file
          /\ saves = 0
    /\ (handler = "cmd_delurls" /\ msg.from \in ADMIN_IDS /\ BatchLines # <<>>) =>
          /\ \A u \in NamedUrls \ Keys(pre_db) :
                \E k \in 1..Len(replies[1].more) : replies[1].more[k] = escape_html(u)
          /\ links_db = Without(pre_db, NamedUrls \cap Keys(pre_db))
          /\ (NamedUrls \cap Keys(pre_db) = {}) =>
                (links_db = pre_db /\ file = pre_file /\ saves = 0)

\* C9 witness: the admin's delurl names a url that is not among the keys of a
\* registry that holds another entry.
C9_Witness ==
    /\ handler = "cmd_delurl"
    /\ msg = [from |-> 1, text |-> <<"/","d","e","l","u","r","l"," ","h","t","t","p",":","/","/","a">>]
    /\ KeyList(pre_db) = <<UrlB>>
    /\ links_db = pre_db
    /\ replies = <<Fixed("not_found")>>

\* u occurs in t as a literal substring.
IsSubstring(u, t) ==
    \E k \in 0..(Len(t) - Len(u)) : \A j \in 1..Len(u) : t[k + j] = u[j]

\* C10: for a message that is no command, the urls auto_edit matches are the
\* registry keys that are literal substrings of the text, each once and in
\* the order of the registry; with an empty text, an empty registry or no key
\* in the text the handler makes no edit call, and it never sends a reply.
C10_MatchedUrls ==
    (handler = "auto_edit") =>
        LET matched == {u \in Keys(pre_db) : IsSubstring(u, msg.text)}
            InMatched(u) == u \in matched
        IN  /\ replies = <<>>
            /\ links_db = pre_db
            /\ file = pre_file
            /\ IF msg.text = <<>> \/ pre_db = <<>> \/ matched = {}
               THEN edits = <<>>
               ELSE /\ Len(edits) = 1
                    /\ edits[1].urls = SelectSeq(KeyList(pre_db), InMatched)

\* C10 witness: the text names the second key of the registry before the
\* first, each inside a longer word, and the match lists them in registry
\* order.
C10_Witness ==
    /\ handler = "auto_edit"
    /\ msg.text = <<"a","<","b",">","&","c"," ","h","t","t","p","s",":","/","/","b","/","r"," ","x","h","t","t","p",":","/","/","a","y","\n","C","o","d","e",":"," ","A","-","1"," ","x">>
    /\ KeyList(pre_db) = <<UrlA, UrlB>>
    /\ Len(edits) = 1
    /\ edits[1].urls = <<UrlA, UrlB>>

(***************************************************************************)
(* Handlers in flight.  dp.start_polling runs every handler as a coroutine *)
(* of the one event loop: a coroutine keeps the loop from its start, and   *)
(* from every resumption, up to its next await, and the other coroutines   *)
(* run only there.  The steps of a handler are its statements that read or *)
(* write links_db or the file, its reply and its return.                   *)
(***************************************************************************)
Stmt(op, url, label) == [op |-> op, url |-> url, label |-> label]

\* save_links(links_db), under the handler's "if added:" / "if removed:"
\* where it has one.
SaveStmt == Stmt("save", <<>>, <<>>)

\* await msg.reply(...)
ReplyStmt == Stmt("reply", <<>>, <<>>)

\* The end of the handler.
ReturnStmt == Stmt("return", <<>>, <<>>)

\* The steps of cmd_addurl on m.
addurl_steps(m) ==
    LET parts == split(m.text, 2)
    IN  IF ~is_admin(m.from) \/ Len(parts) < 3 THEN <<ReplyStmt, ReturnStmt>>
        ELSE IF ~ValidUrl(parts[3]) THEN <<ReplyStmt, ReturnStmt>>
        ELSE <<Stmt("put", parts[3], parts[2]), SaveStmt, ReplyStmt, ReturnStmt>>

\* The steps of the for loop of cmd_addurls.
RECURSIVE addurls_steps_loop(_)
addurls_steps_loop(lines) ==
    IF lines = <<>> THEN <<>>
    ELSE LET parts == split(strip(Head(lines)), 1)
         IN  (IF Len(parts) = 2 /\ ValidUrl(parts[2])
              THEN <<Stmt("put", parts[2], parts[1])>> ELSE <<>>)
             \o addurls_steps_loop(Tail(lines))

\* The steps of cmd_addurls on m.
addurls_steps(m) ==
    IF ~is_admin(m.from) \/ Tail(splitlines(m.text)) = <<>> THEN <<ReplyStmt, ReturnStmt>>
    ELSE addurls_steps_loop(Tail(splitlines(m.text))) \o <<SaveStmt, ReplyStmt, ReturnStmt>>

\* The steps of cmd_delurl on m: the test "url in links_db", the del of its
\* true branch, the save of that branch.
delurl_steps(m) ==
    LET parts == split(m.text, 1)
    IN  IF ~is_admin(m.from) \/ Len(parts) # 2 THEN <<ReplyStmt, ReturnStmt>>
        ELSE <<Stmt("test", parts[2], <<>>), Stmt("del", parts[2], <<>>),
               SaveStmt, ReplyStmt, ReturnStmt>>

\* The steps of the for loop of cmd_delurls.
RECURSIVE delurls_steps_loop(_)
delurls_steps_loop(lines) ==
    IF lines = <<>> THEN <<>>
    ELSE LET url == strip(Head(lines))
         IN  (IF url # <<>>
              THEN <<Stmt("test", url, <<>>), Stmt("del", url, <<>>)>> ELSE <<>>)
             \o delurls_steps_loop(Tail(lines))

\* The steps of cmd_delurls on m.
delurls_steps(m) ==
    IF ~is_admin(m.from) \/ Tail(splitlines(m.text)) = <<>> THEN <<ReplyStmt, ReturnStmt>>
    ELSE delurls_steps_loop(Tail(splitlines(m.text))) \o <<SaveStmt, ReplyStmt, ReturnStmt>>

\* The steps of cmd_setbutton on m: the test "url not in links_db", the
\* assignment to links_db[url]["label"], the save.
setbutton_steps(m) ==
    LET parts == split(m.text, 2)
    IN  IF ~is_admin(m.from) \/ Len(parts) < 3 THEN <<ReplyStmt, ReturnStmt>>
        ELSE <<Stmt("test", parts[2], <<>>), Stmt("relabel", parts[2], parts[3]),
               SaveStmt, ReplyStmt, ReturnStmt>>

\* The steps of the handler the message is routed to.
Steps(m) ==
    CASE Route(m) = "cmd_addurl" -> addurl_steps(m)
      [] Route(m) = "cmd_addurls" -> addurls_steps(m)
      [] Route(m) = "cmd_delurl" -> delurl_steps(m)
      [] Route(m) = "cmd_delurls" -> delurls_steps(m)
      [] Route(m) = "cmd_setbutton" -> setbutton_steps(m)
      [] OTHER -> <<ReplyStmt, ReturnStmt>>

\* One step on s = [db, file, found, changed, error].  del and the label
\* assignment run in the branch the last test chose; on a key that is gone
\* they raise KeyError, and the handler's except branch skips to its reply.
Exec(s, st) ==
    IF s.error THEN s
    ELSE CASE st.op = "test" -> [s EXCEPT !.found = HasKey(s.db, st.url)]
           [] st.op = "put" ->
                [s EXCEPT !.db = DictSet(@, st.url, LabelData(st.label)),
                          !.changed = TRUE]
           [] st.op = "del" ->
                IF ~s.found THEN s
                ELSE IF HasKey(s.db, st.url)
                THEN [s EXCEPT !.db = DictDel(@, st.url), !.changed = TRUE]
                ELSE [s EXCEPT !.error = TRUE]
           [] st.op = "relabel" ->
                IF ~s.found THEN s
                ELSE IF HasKey(s.db, st.url)
                THEN [s EXCEPT !.db = DictSet(@, st.url, LabelData(st.label)),
                               !.changed = TRUE]
                ELSE [s EXCEPT !.error = TRUE]
           [] st.op = "save" ->
                IF s.changed THEN [s EXCEPT !.file = save_links(@, s.db, Ok)] ELSE s
           [] OTHER -> s

\* Mutant of Awaits: the handler also gives up the event loop after its test
\* of "url in links_db".
Awaits_after_test(st) == st.op \in {"reply", "test"}

\* The steps at which a handler gives up the event loop: its awaits.
Awaits(st) == st.op = "reply"

\* The messages of the runs with handlers in flight: the admin's commands on
\* one url, and a batch of each kind.
TaskTexts ==
    { <<"/","a","d","d","u","r","l"," ","L"," ","h","t","t","p",":","/","/","a">>,
      <<"/","d","e","l","u","r","l"," ","h","t","t","p",":","/","/","a">>,
      <<"/","s","e","t","b","u","t","t","o","n"," ","h","t","t","p",":","/","/","a"," ","<","&">>,
      <<"/","a","d","d","u","r","l","s","\n","L"," ","h","t","t","p",":","/","/","a","\n","b","a","d","\n","<","&"," ","h","t","t","p","s",":","/","/","b">>,
      <<"/","d","e","l","u","r","l","s","\n","h","t","t","p",":","/","/","a","\n","\n","f","t","p",":","/","/","c","\n"," ","h","t","t","p","s",":","/","/","b"," ">> }

TaskMessages == [from : ADMIN_IDS, text : TaskTexts]

\* A coroutine the dispatcher has created for m and not yet started, with the
\* steps it will take.
NewTask(m) ==
    [m |-> m, steps |-> Steps(m), pos |-> 1, found |-> FALSE, changed |-> FALSE, error |-> FALSE,
     start_db |-> <<>>, start_file |-> NoFile,
     replied |-> FALSE, end_db |-> <<>>, end_file |-> NoFile]

\* The coroutine t runs on registry db and file f from its position up to its
\* next await or its end.  The registry and file it found at its first step
\* and left at its reply are recorded in it.
RECURSIVE run(_, _, _)
run(t, db, f) ==
    LET st == t.steps[t.pos]
        s == Exec([db |-> db, file |-> f, found |-> t.found,
                   changed |-> t.changed, error |-> t.error], st)
        t1 == [t EXCEPT !.pos = @ + 1,
                        !.found = s.found,
                        !.changed = s.changed,
                        !.error = s.error,
                        !.start_db = IF t.pos = 1 THEN db ELSE @,
                        !.start_file = IF t.pos = 1 THEN f ELSE @,
                        !.replied = @ \/ st.op = "reply",
                        !.end_db = IF st.op = "reply" THEN s.db ELSE @,
                        !.end_file = IF st.op = "reply" THEN s.file ELSE @]
    IN  IF Awaits(st) \/ t1.pos > Len(t.steps)
        THEN [task |-> t1, db |-> s.db, file |-> s.file]
        ELSE run(t1, s.db, s.file)

\* The dispatcher receives a message while polling and creates the coroutine
\* of its handler.
Dispatch ==
    /\ pc = "polling"
    /\ Len(tasks) < MaxTasks
    /\ \E m \in TaskMessages : tasks' = Append(tasks, NewTask(m))
    /\ UNCHANGED <<links_db, file, pc, save_failures, responses>>
    /\ UNCHANGED main_vars
    /\ UNCHANGED obs_vars

\* The event loop starts or resumes one of the coroutines.
RunTask ==
    /\ pc = "polling"
    /\ \E i \in 1..Len(tasks) :
        /\ tasks[i].pos <= Len(tasks[i].steps)
        /\ \E r \in {run(tasks[i], links_db, file)} :
            /\ links_db' = r.db
            /\ file' = r.file
            /\ tasks' = [tasks EXCEPT ![i] = r.task]
    /\ UNCHANGED <<pc, save_failures, responses>>
    /\ UNCHANGED main_vars
    /\ UNCHANGED obs_vars

NextTasks ==
    \/ StartAttempt
    \/ Dispatch
    \/ RunTask

SpecTasks == Init /\ [][NextTasks]_vars

\* C11: with several handlers in flight, each handler's reads of and writes
\* to the registry and its save are atomic with respect to the others.  No
\* handler meets a key that was removed between its test and its write, and
\* the registry and file a handler has left at its reply are what the
\* handler makes, run alone, of the registry and file it found at its first
\* step: no step of another handler lies in between, so no update is lost.
C11_HandlersAtomic ==
    \A i \in 1..Len(tasks) :
        /\ ~tasks[i].error
        /\ tasks[i].replied =>
              LET t == tasks[i]
                  r == HandlerResult(RouteOf[t.m], t.start_db, t.start_file, t.m, Ok)
              IN  /\ t.end_db = r.db
                  /\ t.end_file = r.file

\* C11 witness: two handlers are in flight on the same url.  The setbutton
\* handler, created first, has not returned from its reply; it ran after the
\* delurl handler, created second, removed the url, and it found the url
\* absent and changed nothing.
C11_Witness ==
    /\ Len(tasks) = 2
    /\ tasks[1].m.text = <<"/","s","e","t","b","u","t","t","o","n"," ","h","t","t","p",":","/","/","a"," ","<","&">>
    /\ tasks[2].m.text = <<"/","d","e","l","u","r","l"," ","h","t","t","p",":","/","/","a">>
    /\ tasks[1].replied /\ tasks[1].pos = Len(tasks[1].steps)
    /\ tasks[2].replied /\ tasks[2].changed
    /\ tasks[1].start_db = tasks[2].end_db
    /\ ~tasks[1].found /\ ~tasks[1].changed
    /\ links_db = tasks[2].end_db

\* C12: a manual interrupt ends the loop at once whatever the retry state:
\* in the state after it main has ended, whether the interrupt came during
\* polling or during a backoff wait and whatever retry_count is, and from
\* then on no polling attempt is started, no wait is begun and the counter
\* stays as it was.
C12_InterruptCancels ==
    /\ [](interrupted => pc = "done")
    /\ [][interrupted' /\ ~interrupted => pc \in {"polling", "sleeping"}]_vars
    /\ [][interrupted => /\ attempts' = attempts
                         /\ waits' = waits
                         /\ retry_count' = retry_count
                         /\ interrupted']_vars

\* C12 witness: the interrupt arrived during the backoff wait after the
\* fourth failure (as many attempts as failures and normal returns, the
\* fourth wait begun), and main has ended.
C12_Witness ==
    /\ interrupted
    /\ pc = "done"
    /\ retry_count = 4
    /\ Len(waits) = 4
    /\ attempts = retry_count + returns

\* C13: on every loop iteration the backlog of pending updates has been
\* cleared by on_startup when polling starts: no polling attempt runs on a
\* backlog that was not cleared in its iteration.
C13_ClearBeforePolling == (pc = "polling") => (pending = "cleared")

\* The label the registry d shows for its key url: the label field, and the
\* default "Sign Up Now" when the field is absent or empty.
ShownLabel(d, url) ==
    IF ~Lookup(d, url).has_label \/ Lookup(d, url).label = <<>> THEN DefaultLabel
    ELSE Lookup(d, url).label

\* C14: the buttons of a rewritten message are one per matched url, in the
\* order of the match, each with the url and the registry's label for it,
\* the default label standing in for a label field that is empty or absent.
C14_ButtonLabels ==
    (handler = "auto_edit" /\ edits # <<>>) =>
        /\ Len(edits[1].keyboard) = Len(edits[1].urls)
        /\ \A i \in 1..Len(edits[1].urls) :
              /\ edits[1].keyboard[i].url = edits[1].urls[i]
              /\ edits[1].keyboard[i].text = ShownLabel(pre_db, edits[1].urls[i])

\* C15: every key of the registry is non-empty and begins with http:// or
\* https://, and every entry has a non-empty label, in every reachable state,
\* the one after the initial load included.
C15_EntriesValid ==
    \A i \in 1..Len(links_db) :
        /\ links_db[i].url # <<>>
        /\ ValidUrl(links_db[i].url)
        /\ links_db[i].data.has_label
        /\ links_db[i].data.label # <<>>

(***************************************************************************)
(* The keep-alive server (keep_alive.py).  It runs in a thread of its own  *)
(* and shares nothing with the bot; responses holds its answers in order.  *)
(***************************************************************************)
\* The request paths of the model (self.path, the query string included):
\* the two paths do_GET knows, and others.
Paths == { <<"/">>, <<"/","h","e","a","l","t","h">>, <<"/","h","e","a","l","t","h","/">>, <<"/","s","t","a","t","u","s">>, <<"/","h","e","a","l","t","h","?","x">> }

\* HealthCheckHandler.do_GET: status and body for a path.
do_GET(path) ==
    IF path = <<"/","h","e","a","l","t","h">> \/ path = <<"/">>
    THEN [method |-> "GET", path |-> path, status |-> 200,
          body |-> <<"B","o","t"," ","i","s"," ","r","u","n","n","i","n","g","!">>]
    ELSE [method |-> "GET", path |-> path, status |-> 404, body |-> <<>>]

\* HealthCheckHandler.do_HEAD: status for a path; no body.
do_HEAD(path) == [method |-> "HEAD", path |-> path, status |-> 200, body |-> <<>>]

\* The state in which only the keep-alive server is looked at: the bot has
\* loaded no file and main() has not started its loop.
InitHealth ==
    /\ Init
    /\ file = NoFile

\* The server answers a GET request.
HandleGet ==
    /\ Len(responses) < MaxProbes
    /\ \E path \in Paths : responses' = Append(responses, do_GET(path))
    /\ UNCHANGED <<links_db, file, pc, save_failures, tasks>>
    /\ UNCHANGED main_vars
    /\ UNCHANGED obs_vars

\* The server answers a HEAD request.
HandleHead ==
    /\ Len(responses) < MaxProbes
    /\ \E path \in Paths : responses' = Append(responses, do_HEAD(path))
    /\ UNCHANGED <<links_db, file, pc, save_failures, tasks>>
    /\ UNCHANGED main_vars
    /\ UNCHANGED obs_vars

NextHealth ==
    \/ HandleGet
    \/ HandleHead

SpecHealth == InitHealth /\ [][NextHealth]_vars

\* C16: the health endpoint answers every probe with success whatever the
\* path: every response to a GET or HEAD request has status 200.
C16_EveryProbeSucceeds ==
    \A i \in 1..Len(responses) : responses[i].status = 200

\* The restart loop with the auto-format handler running while polling.
NextEdit ==
    \/ NextMain
    \/ AutoEdit

SpecEdit == Init /\ [][NextEdit]_vars

\* C17: a failed edit call stays with its message.  The handler makes the
\* one edit call and no other call, neither a second edit nor a send; the
\* exception does not leave the handler: the step ends as the step of a
\* successful edit does, with polling still running, the failure counter and
\* the waits of main as they were, and the registry and file untouched.
C17_EditFailureIsLocal ==
    /\ [](/\ handler = "auto_edit"
          /\ edits # <<>>
          /\ ~edits[1].ok
          => /\ Len(edits) = 1
             /\ replies = <<>>
             /\ saves = 0
             /\ links_db = pre_db
             /\ file = pre_file
             /\ pc = "polling")
    /\ [][(handler' = "auto_edit" /\ edits' # <<>>)
            => /\ pc' = pc
               /\ retry_count' = retry_count
               /\ waits' = waits
               /\ attempts' = attempts
               /\ session_open' = session_open]_vars

\* C17 witness: during the third polling attempt, after two failures of the
\* connection, the edit call for a message that names a registered url
\* failed; it was the handler's only call, polling goes on and the failure
\* counter is still two.
C17_Witness ==
    /\ handler = "auto_edit"
    /\ msg.text = <<"d","e","c","o","d","e","r",":"," ","h","t","t","p",":","/","/","a",">","\n","c","o","d","e",":">>
    /\ Len(edits) = 1
    /\ ~edits[1].ok
    /\ edits[1].urls = <<UrlA>>
    /\ replies = <<>>
    /\ pc = "polling"
    /\ retry_count = 2

\* The persisted file holds exactly the in-memory registry.
Synced == file = FileOf(Serialize(links_db))

\* The reply of the last step reports a change of the registry.
ReportsMutation ==
    /\ replies # <<>>
    /\ \/ replies[1].kind \in {"saved", "removed", "updated"}
       \/ replies[1].kind \in {"batch_added", "batch_removed"} /\ replies[1].lines # <<>>

\* C18: while no save fails, the file follows the registry.  Every
\* successful addurl, addurls, delurl, delurls and setbutton writes the whole
\* registry once before it replies; a step without a save leaves registry and
\* file alone and only the five mutating handlers save; so once a mutation
\* has succeeded the file equals the registry between handlers, and stays
\* equal for good.
C18_FileFollowsRegistry ==
    /\ [](handler # "none" =>
            /\ ReportsMutation <=> saves = 1
            /\ saves \in {0, 1}
            /\ saves = 1 =>
                  /\ Synced
                  /\ handler \in {"cmd_addurl", "cmd_addurls", "cmd_delurl",
                                  "cmd_delurls", "cmd_setbutton"}
            /\ saves = 0 => links_db = pre_db /\ file = pre_file)
    /\ [][Synced => Synced']_vars
    /\ [](saves = 1 => []Synced)

\* C18 witness: after two additions (no initial file holds two entries) a
\* message is rewritten, a step that writes nothing, and the file holds the
\* registry of two entries.
C18_Witness ==
    /\ handler = "auto_edit"
    /\ edits # <<>>
    /\ KeyList(links_db) = <<UrlB, UrlA>>
    /\ Synced

\* C19: the failure counter of main is never reset.  It never decreases; a
\* polling run that returns normally leaves the counter and the waits as
\* they are and goes back to the loop test, from where the next attempt
\* starts with no wait in between; and main has ended as soon as the counter
\* is at max_retries, however many normal returns lie between the failures.
C19_CounterNeverReset ==
    /\ [][retry_count' >= retry_count]_vars
    /\ [][returns' # returns =>
            /\ retry_count' = retry_count
            /\ waits' = waits
            /\ pc' = "loop"]_vars
    /\ [][(pc = "loop" /\ retry_count < max_retries) =>
            /\ pc' = "polling"
            /\ attempts' = attempts + 1
            /\ waits' = waits
            /\ retry_count' = retry_count]_vars
    /\ [](retry_count <= max_retries)
    /\ [](retry_count = max_retries => pc = "done")
    /\ []((pc = "done" /\ ~interrupted) => retry_count = max_retries)

\* C19 witness: main has ended on its fifth failure after six attempts, one
\* of which returned normally.
C19_Witness ==
    /\ pc = "done"
    /\ ~interrupted
    /\ retry_count = max_retries
    /\ returns = 1
    /\ attempts = 6
    /\ waits = <<2, 4, 8, 16>>

\* The texts of the replies rs from reply i on, joined in send order.
RECURSIVE JoinTexts(_, _)
JoinTexts(rs, i) ==
    IF i > Len(rs) THEN <<>> ELSE rs[i].text \o JoinTexts(rs, i + 1)

\* The entry lines of the registry d from entry i on, each once, numbered
\* from 1 in insertion order.
RECURSIVE EntryLines(_, _)
EntryLines(d, i) ==
    IF i > Len(d) THEN <<>> ELSE ListLine(d, i) \o EntryLines(d, i + 1)

\* C20: when listurls sends its output in several replies, the replies
\* joined in send order are the unsplit listing: the header once, at the
\* start, then every entry of the registry exactly once, numbered and in
\* insertion order; nothing is dropped or repeated where a reply ends.
C20_ChunksJoinToListing ==
    (handler = "cmd_listurls" /\ Len(replies) >= 2) =>
        /\ \A i \in 1..Len(replies) : replies[i].kind = "listing"
        /\ JoinTexts(replies, 1) = ListHeader(pre_db) \o EntryLines(pre_db, 1)
        /\ links_db = pre_db

\* C20 witness: a registry of three entries was listed in three replies.
C20_Witness ==
    /\ handler = "cmd_listurls"
    /\ Len(pre_db) = 3
    /\ Len(replies) = 3
    /\ \A i \in 1..3 : Len(replies[i].text) > 1000

=============================================================================
